---- MODULE Spec2Model ----
(***************************************************************************)
(* A model of the evaluation glue of NAS-PED:                              *)
(*   mmdet/evaluation/metrics/cityperson_metric.py  (CityPersonMetric)     *)
(*   mmdet/datasets/cityperson.py                    (CityPersonDataset)   *)
(*   mmdet/datasets/coco_person.py                   (CocoPersonDataset)   *)
(*                                                                         *)
(* One object (`self`) is alive in a behaviour.  Every action is one call  *)
(* of a method of that object, run to its return or to the exception it    *)
(* raises.  `op` names the last call and its arguments, `ret` is what it   *)
(* returned, `raised` the exception it ended with (NONE: it returned),     *)
(* `calls` the calls it made into code outside these files, in order, and  *)
(* `written` the paths it wrote, in order.  `files` is the file system and *)
(* `tmp_dirs` the temporary directories that exist.                        *)
(*                                                                         *)
(* Python values: None is NONE where a string is expected and NoPrefix     *)
(* where a file prefix is expected.  A file prefix "d/b" is the tuple      *)
(* <<"d", "b">>; f'{prefix}.bbox.json' appends the extension to the tuple. *)
(* Scores are numbers in hundredths; float() of a numpy float and          *)
(* ndarray.tolist() keep the value of every number, so they keep it here.  *)
(***************************************************************************)
EXTENDS Integers, Sequences, FiniteSets, TLC

VARIABLES self, caller_results, files, tmp_dirs, op, ret, raised, calls, written

vars == <<self, caller_results, files, tmp_dirs, op, ret, raised, calls, written>>

\* ---------------------------------------------------------------- bounds

\* The longest self.results (samples processed by one metric object).
MaxResults == 2

\* ---------------------------------------------------------------- values

NONE == "None"
NoPrefix == <<>>
Prefixes == {<<"a/b", "prefix">>}
OptPrefixes == Prefixes \cup {NoPrefix}
TmpNames == {"/tmp/tmpa", "/tmp/tmpb"}
AnnFiles == {"val_gt.json"}

\* Two detections with different boxes, scores and labels (xyxy boxes).
Det1 == [bbox |-> <<1, 2, 4, 4>>, score |-> 90, label |-> 0]
Det2 == [bbox |-> <<0, 1, 2, 5>>, score |-> 25, label |-> 1]
DetLists == {<<>>, <<Det1>>, <<Det2, Det1>>}

\* pred_instances of a data sample: three arrays of one length.
PredInstances(dets) ==
    [bboxes |-> [i \in 1..Len(dets) |-> dets[i].bbox],
     scores |-> [i \in 1..Len(dets) |-> dets[i].score],
     labels |-> [i \in 1..Len(dets) |-> dets[i].label]]

\* The images of the data set: ori_shape is (height, width), dets is what the
\* detector predicts on the image.
Images == {[img_id |-> 1, ori_shape |-> <<2, 3>>, dets |-> <<Det2, Det1>>],
           [img_id |-> 2, ori_shape |-> <<4, 4>>, dets |-> <<>>]}

\* A data sample handed to process(): 'instances' may be missing.
DataSamples ==
    {[img_id |-> im.img_id, ori_shape |-> im.ori_shape,
      pred_instances |-> PredInstances(im.dets),
      has_instances |-> h,
      instances |-> IF h THEN <<"gt_instance">> ELSE <<>>] :
        im \in Images, h \in BOOLEAN}

RECURSIVE SeqsUpTo(_, _)
SeqsUpTo(S, n) ==
    IF n = 0 THEN {<<>>}
    ELSE LET shorter == SeqsUpTo(S, n - 1)
         IN shorter \cup {Append(s, x) : s \in {t \in shorter : Len(t) = n - 1}, x \in S}

\* The metric argument: a str, or a list of str.
MetricNames == {"MR", "AP", "JI", "bbox"}
MetricArgs ==
    {[is_list |-> FALSE, v |-> <<m>>] : m \in MetricNames}
    \cup {[is_list |-> TRUE, v |-> s] : s \in SeqsUpTo(MetricNames, 1)}
    \cup {[is_list |-> TRUE, v |-> <<"MR", m>>] : m \in {"AP", "bbox"}}

Call(fn) == [fn |-> fn, setup |-> -1]
CallK(fn, k) == [fn |-> fn, setup |-> k]

RECURSIVE Flatten(_)
Flatten(ss) == IF ss = <<>> THEN <<>> ELSE Head(ss) \o Flatten(Tail(ss))

\* ---------------------------------------------------------- file system

WriteFile(fs, path, content) ==
    {f \in fs : f.path # path} \cup {[path |-> path, content |-> content]}

\* TemporaryDirectory.cleanup(): the directory goes with what is in it.
RemoveDir(fs, dir) == {f \in fs : f.path[1] # dir}

\* ------------------------------------------------------ CityPersonMetric

\* allowed_metrics of CityPersonMetric.__init__
allowed_metrics == <<"MR">>

InList(x, list) == \E i \in 1..Len(list) : list[i] = x

\* The attributes of a CityPersonMetric before __init__ has set any.
MetricBlank ==
    [cls |-> "CityPersonMetric", ready |-> FALSE, ann_file |-> NONE,
     metrics |-> <<>>, format_only |-> FALSE, outfile_prefix |-> NoPrefix,
     file_client |-> NONE, coco_api |-> NONE, results |-> <<>>]

\* The for loop over self.metrics: TRUE when it raises KeyError.
MetricsRejected(ms) == \E i \in 1..Len(ms) : ~InList(ms[i], allowed_metrics)

\* __init__ with the file client and the COCO object made before the
\* arguments are checked.
MetricInitRun_ClientFirst(ann_file, metric, format_only, outfile_prefix) ==
    LET a1 == [MetricBlank EXCEPT !.ann_file = ann_file,
                                  !.file_client = "FileClient",
                                  !.coco_api = IF ann_file # NONE THEN "COCO" ELSE NONE,
                                  !.metrics = IF metric.is_list THEN metric.v
                                              ELSE <<metric.v[1]>>]
        a3 == [a1 EXCEPT !.format_only = format_only,
                         !.outfile_prefix = outfile_prefix]
        made == <<Call("FileClient")>>
    IN  IF MetricsRejected(a1.metrics)
        THEN [self |-> a1, raised |-> "KeyError", calls |-> made]
        ELSE IF format_only /\ outfile_prefix = NoPrefix
        THEN [self |-> a3, raised |-> "AssertionError", calls |-> made]
        ELSE [self |-> [a3 EXCEPT !.ready = TRUE], raised |-> NONE, calls |-> made]

\* CityPersonMetric.__init__: the object as far as it got, the exception and
\* the outside calls made.
MetricInitRun(ann_file, metric, format_only, outfile_prefix) ==
    LET a1 == [MetricBlank EXCEPT !.ann_file = ann_file,
                                  !.metrics = IF metric.is_list THEN metric.v
                                              ELSE <<metric.v[1]>>]
        a2 == [a1 EXCEPT !.format_only = format_only]
        a3 == [a2 EXCEPT !.outfile_prefix = outfile_prefix,
                         !.file_client = "FileClient"]
    IN  IF MetricsRejected(a1.metrics)
        THEN [self |-> a1, raised |-> "KeyError", calls |-> <<>>]
        ELSE IF format_only /\ outfile_prefix = NoPrefix
        THEN [self |-> a2, raised |-> "AssertionError", calls |-> <<>>]
        ELSE IF ann_file # NONE
        THEN [self |-> [a3 EXCEPT !.coco_api = "COCO", !.ready = TRUE],
              raised |-> NONE,
              calls |-> <<Call("FileClient"), Call("get_local_path"), Call("COCO")>>]
        ELSE [self |-> [a3 EXCEPT !.ready = TRUE], raised |-> NONE,
              calls |-> <<Call("FileClient")>>]

MetricInit(ann_file, metric, format_only, outfile_prefix) ==
    /\ self.cls = NONE
    /\ LET r == MetricInitRun(ann_file, metric, format_only, outfile_prefix)
       IN  /\ self' = r.self
           /\ raised' = r.raised
           /\ calls' = r.calls
    /\ op' = [name |-> "__init__", metric |-> metric, format_only |-> format_only,
              prefix |-> outfile_prefix, ann_file |-> ann_file]
    /\ ret' = NONE
    /\ written' = <<>>
    /\ UNCHANGED <<caller_results, files, tmp_dirs>>

\* CityPersonMetric.xyxy2xywh
xyxy2xywh(bbox) == <<bbox[1], bbox[2], bbox[3] - bbox[1], bbox[4] - bbox[2]>>

\* process() with the two entries of ori_shape taken the other way round.
ProcessOne_ShapeSwapped(data_sample, coco_api) ==
    LET result == [has_img_id |-> TRUE, img_id |-> data_sample.img_id,
                   bboxes |-> data_sample.pred_instances.bboxes,
                   scores |-> data_sample.pred_instances.scores,
                   labels |-> data_sample.pred_instances.labels]
        gt == [width |-> data_sample.ori_shape[1],
               height |-> data_sample.ori_shape[2],
               img_id |-> data_sample.img_id,
               has_anns |-> coco_api = NONE,
               anns |-> IF coco_api = NONE THEN data_sample.instances ELSE <<>>]
    IN  <<gt, result>>

\* One prediction and one ground truth as process() builds them.
ProcessOne(data_sample, coco_api) ==
    LET result == [has_img_id |-> TRUE, img_id |-> data_sample.img_id,
                   bboxes |-> data_sample.pred_instances.bboxes,
                   scores |-> data_sample.pred_instances.scores,
                   labels |-> data_sample.pred_instances.labels]
        gt == [width |-> data_sample.ori_shape[2],
               height |-> data_sample.ori_shape[1],
               img_id |-> data_sample.img_id,
               has_anns |-> coco_api = NONE,
               anns |-> IF coco_api = NONE THEN data_sample.instances ELSE <<>>]
    IN  <<gt, result>>

\* The loop of process(): the assertion stops it at the first sample without
\* 'instances' when no annotation file was given.
RECURSIVE ProcessSamples(_, _, _)
ProcessSamples(results, data_samples, coco_api) ==
    IF data_samples = <<>> THEN [results |-> results, raised |-> NONE]
    ELSE IF coco_api = NONE /\ ~Head(data_samples).has_instances
    THEN [results |-> results, raised |-> "AssertionError"]
    ELSE ProcessSamples(Append(results, ProcessOne(Head(data_samples), coco_api)),
                        Tail(data_samples), coco_api)

\* The batches process() is handed while self.results has room.
Batches ==
    IF self.cls = "CityPersonMetric" /\ self.ready
    THEN SeqsUpTo(DataSamples, MaxResults - Len(self.results))
    ELSE {}

Process(data_samples) ==
    /\ self.cls = "CityPersonMetric" /\ self.ready
    /\ Len(self.results) + Len(data_samples) <= MaxResults
    /\ LET r == ProcessSamples(self.results, data_samples, self.coco_api)
       IN  /\ self' = [self EXCEPT !.results = r.results]
           /\ raised' = r.raised
    /\ op' = [name |-> "process", data_samples |-> data_samples,
              before |-> self.results]
    /\ ret' = NONE
    /\ calls' = <<>>
    /\ written' = <<>>
    /\ UNCHANGED <<caller_results, files, tmp_dirs>>

\* format_results() that writes the label as the category.
ResultRecords_LabelAsCategory(result, idx) ==
    [i \in 1..Len(result.labels) |->
        [image_id |-> IF result.has_img_id THEN result.img_id ELSE idx,
         bbox |-> xyxy2xywh(result.bboxes[i]),
         score |-> result.scores[i],
         category_id |-> result.labels[i]]]

\* The records format_results() builds for one result at 0-based position idx.
ResultRecords(result, idx) ==
    [i \in 1..Len(result.labels) |->
        [image_id |-> IF result.has_img_id THEN result.img_id ELSE idx,
         bbox |-> xyxy2xywh(result.bboxes[i]),
         score |-> result.scores[i],
         category_id |-> 1]]

\* The list `res` of CityPersonMetric.format_results.
FormatRecords(results) ==
    Flatten([k \in 1..Len(results) |-> ResultRecords(results[k], k - 1)])

\* f'{jsonfile_prefix}.bbox.json'
BboxJson(prefix) == Append(prefix, ".bbox.json")

\* format_results that makes its temporary directory whatever the prefix.
FormatResultsRun_AlwaysTmp(results, jsonfile_prefix, tmp_name) ==
    LET prefix == IF jsonfile_prefix = NoPrefix THEN <<tmp_name, "results">>
                  ELSE jsonfile_prefix
    IN  [path |-> BboxJson(prefix), tmp_dir |-> tmp_name,
         content |-> FormatRecords(results)]

\* CityPersonMetric.format_results: tmp_name is the name TemporaryDirectory()
\* picks when it is called.
FormatResultsRun(results, jsonfile_prefix, tmp_name) ==
    LET tmp_dir == IF jsonfile_prefix = NoPrefix THEN tmp_name ELSE NONE
        prefix == IF jsonfile_prefix = NoPrefix THEN <<tmp_name, "results">>
                  ELSE jsonfile_prefix
    IN  [path |-> BboxJson(prefix), tmp_dir |-> tmp_dir,
         content |-> FormatRecords(results)]

\* range(lo, hi)
Range(lo, hi) == [i \in 1..(hi - lo) |-> lo + i - 1]

\* The setups compute_metrics and evaluate loop over: range(0, 4).
SetupLast == 4

ReadFile(fs, path) == (CHOOSE f \in fs : f.path = path).content

\* The names bound at module level in cityperson_metric.py (its imports and
\* definitions) and in cityperson.py: a name used in a method and bound
\* nowhere raises NameError when the line runs.
MetricModuleNames ==
    {"copy", "json", "osp", "tempfile", "OrderedDict", "Process", "Queue",
     "Dict", "List", "Optional", "Sequence", "Union", "np", "BaseMetric",
     "FileClient", "dump", "load", "MMLogger", "csr_matrix",
     "maximum_bipartite_matching", "bbox_overlaps", "METRICS", "COCO",
     "COCOeval", "PERSON_CLASSES", "CityPersonMetric"}
CityPersonModuleNames ==
    {"copy", "json", "osp", "tempfile", "mmcv", "List", "Union", "np",
     "DATASETS", "BaseDetDataset", "COCO", "CityPersonDataset"}

\* COCO(ann_file): a new ground-truth object read from the file. `touched`
\* are the setups whose evaluate() has set 'ignore' flags on its annotations.
LoadGt(ann_file) == [ann_file |-> ann_file, touched |-> {}]

\* COCOeval.summarize_nofile(id_setup) after evaluate(id_setup) and
\* accumulate(): the Miss Rate of a setup, a function of the setup, of the
\* ground truth as evaluate() finds it (the file, and the flags earlier
\* setups left on the object), and of the detections read from the results
\* file.
MissRate(id_setup, cocoGt, dets) ==
    [id_setup |-> id_setup, gt |-> cocoGt.ann_file, stale |-> cocoGt.touched,
     dets |-> dets]

\* The pass of the loop that would go on with the cocoGt an earlier pass
\* bound.
EvalSetup_GtKept(id_setup, ann_file, result_file, fs, names, locals) ==
    LET cocoGt == IF "cocoGt" \in DOMAIN locals THEN locals.cocoGt
                  ELSE LoadGt(ann_file)
    IN  IF "COCOeval" \in names
        THEN [calls |-> <<Call("COCO"), Call("loadRes"), Call("getImgIds"),
                          Call("COCOeval"), CallK("evaluate", id_setup),
                          Call("accumulate"), CallK("summarize_nofile", id_setup)>>,
              mr |-> <<MissRate(id_setup, cocoGt, ReadFile(fs, result_file))>>,
              raised |-> NONE,
              locals |-> [cocoGt |-> [cocoGt EXCEPT !.touched = @ \cup {id_setup}]]]
        ELSE [calls |-> <<Call("COCO"), Call("loadRes"), Call("getImgIds")>>,
              mr |-> <<>>, raised |-> "NameError",
              locals |-> [cocoGt |-> cocoGt]]

\* One pass of the loop over the setups, in a module that binds `names` and
\* with the local names `locals` that earlier passes bound: what it calls,
\* what it appends to mean_MR, the exception that ends it, and the locals it
\* leaves. It binds cocoGt anew before anything reads it.
EvalSetup(id_setup, ann_file, result_file, fs, names, locals) ==
    LET cocoGt == LoadGt(ann_file)
    IN  IF "COCOeval" \in names
        THEN [calls |-> <<Call("COCO"), Call("loadRes"), Call("getImgIds"),
                          Call("COCOeval"), CallK("evaluate", id_setup),
                          Call("accumulate"), CallK("summarize_nofile", id_setup)>>,
              mr |-> <<MissRate(id_setup, cocoGt, ReadFile(fs, result_file))>>,
              raised |-> NONE,
              locals |-> [cocoGt |-> [cocoGt EXCEPT !.touched = @ \cup {id_setup}]]]
        ELSE [calls |-> <<Call("COCO"), Call("loadRes"), Call("getImgIds")>>,
              mr |-> <<>>, raised |-> "NameError",
              locals |-> [cocoGt |-> cocoGt]]

\* The loop `for id_setup in range(0, 4)`: it stops at the first pass that
\* raises.
RECURSIVE RunSetups(_, _, _, _, _, _)
RunSetups(setups, ann_file, result_file, fs, names, locals) ==
    IF setups = <<>> THEN [calls |-> <<>>, mean_MR |-> <<>>, raised |-> NONE]
    ELSE LET one == EvalSetup(Head(setups), ann_file, result_file, fs, names, locals)
             rest == RunSetups(Tail(setups), ann_file, result_file, fs, names,
                               one.locals)
         IN  IF one.raised # NONE
             THEN [calls |-> one.calls, mean_MR |-> <<>>, raised |-> one.raised]
             ELSE [calls |-> one.calls \o rest.calls,
                   mean_MR |-> one.mr \o rest.mean_MR,
                   raised |-> rest.raised]

\* The dict compute_metrics and evaluate return.
EvalResults(mean_MR) ==
    ("Reasonable" :> mean_MR[1]) @@ ("Reasonable_small" :> mean_MR[2])
    @@ ("Reasonable_occ=heavy" :> mean_MR[3]) @@ ("all" :> mean_MR[4])

\* The prefix compute_metrics hands to format_results: the local
\* `outfile_prefix = None`, not self.outfile_prefix.
ComputePrefix(me) == NoPrefix

\* Whether compute_metrics goes on to evaluate after formatting: it never
\* reads self.format_only.
ComputeEvaluates(me) == TRUE

\* CityPersonMetric.compute_metrics(self.results).  zip(*results) of no
\* results cannot be unpacked into two names.  The temporary directory is a
\* local of the call and is cleaned up when the call ends.
ComputeMetrics(tmp_name) ==
    /\ self.cls = "CityPersonMetric" /\ self.ready
    /\ tmp_name \notin tmp_dirs
    /\ op' = [name |-> "compute_metrics", results |-> self.results]
    /\ IF self.results = <<>>
       THEN /\ raised' = "ValueError"
            /\ ret' = NONE
            /\ calls' = <<>>
            /\ written' = <<>>
            /\ files' = files
       ELSE LET preds == [k \in 1..Len(self.results) |-> self.results[k][2]]
                fr == FormatResultsRun(preds, ComputePrefix(self), tmp_name)
                fs == WriteFile(files, fr.path, fr.content)
                run == IF ComputeEvaluates(self)
                       THEN RunSetups(Range(0, SetupLast), self.ann_file,
                                      fr.path, fs, MetricModuleNames, <<>>)
                       ELSE [calls |-> <<>>, mean_MR |-> <<>>, raised |-> NONE]
            IN  /\ raised' = run.raised
                /\ ret' = IF run.raised = NONE /\ ComputeEvaluates(self)
                          THEN EvalResults(run.mean_MR) ELSE NONE
                /\ calls' = run.calls
                /\ written' = <<fr.path>>
                /\ files' = IF fr.tmp_dir = NONE THEN fs
                            ELSE RemoveDir(fs, fr.tmp_dir)
    /\ UNCHANGED <<self, caller_results, tmp_dirs>>

\* CityPersonMetric.format_results(results, jsonfile_prefix) called with the
\* list the caller holds.  The TemporaryDirectory goes back to the caller.
MetricFormatResults(jsonfile_prefix, tmp_name) ==
    /\ self.cls = "CityPersonMetric" /\ self.ready
    /\ jsonfile_prefix = NoPrefix => tmp_name \notin tmp_dirs
    /\ LET fr == FormatResultsRun(caller_results.items, jsonfile_prefix, tmp_name)
       IN  /\ ret' = [path |-> fr.path, tmp_dir |-> fr.tmp_dir]
           /\ files' = WriteFile(files, fr.path, fr.content)
           /\ written' = <<fr.path>>
           /\ tmp_dirs' = IF fr.tmp_dir = NONE THEN tmp_dirs
                          ELSE tmp_dirs \cup {fr.tmp_dir}
    /\ op' = [name |-> "format_results", results |-> caller_results,
              prefix |-> jsonfile_prefix, tmp_before |-> tmp_dirs]
    /\ raised' = NONE
    /\ calls' = <<>>
    /\ UNCHANGED <<self, caller_results>>

\* TemporaryDirectory.cleanup(), by the caller or by the finalizer of a
\* directory object nobody holds any more.
Cleanup(dir) ==
    /\ dir \in tmp_dirs
    /\ tmp_dirs' = tmp_dirs \ {dir}
    /\ files' = RemoveDir(files, dir)
    /\ op' = [name |-> "cleanup", dir |-> dir]
    /\ UNCHANGED <<self, caller_results, ret, raised, calls, written>>

\* The list of results a caller holds: never passed yet (fresh), a list or
\* not, and how often format_results has rewritten its arrays.
NoResults == [fresh |-> TRUE, is_list |-> TRUE, items |-> <<>>, passes |-> 0]
Held(is_list, items) ==
    [fresh |-> FALSE, is_list |-> is_list, items |-> items, passes |-> 0]

Max(a, b) == IF a >= b THEN a ELSE b
Min(a, b) == IF a <= b THEN a ELSE b

\* d.get(key, default) on a dict d.
Get(d, key, default) == IF key \in DOMAIN d THEN d[key] ELSE default

\* The boxes [x1, y1, x2, y2] get_ignores is given: detections and ignore
\* regions of the ground truth.
DtBoxLists == {<<>>, << <<0, 0, 2, 2>> >>, << <<0, 0, 2, 2>>, <<4, 4, 6, 6>> >>}
GtBoxLists == {<<>>, << <<1, 0, 3, 2>> >>, << <<0, 0, 3, 3>>, <<9, 9, 9, 9>> >>}

\* bbox_overlaps(dt_boxes, gt_boxes, mode='iof')[i][j] as the fraction
\* num / den: the intersection of the two boxes over the area of the first.
Iof(dt, gt) ==
    LET w == Max(0, Min(dt[3], gt[3]) - Max(dt[1], gt[1]))
        h == Max(0, Min(dt[4], gt[4]) - Max(dt[2], gt[2]))
    IN  [num |-> w * h, den |-> (dt[3] - dt[1]) * (dt[4] - dt[2])]

\* get_ignores(dt_boxes, gt_boxes): the rows of dt_boxes whose greatest
\* overlap with a ground-truth box is above self.iou_thres, an attribute
\* that is read only when gt_boxes is not empty. iou_thres is in hundredths.
GetIgnoresRun(me, dt_boxes, gt_boxes) ==
    IF gt_boxes = <<>> THEN [ret |-> 0, raised |-> NONE]
    ELSE IF "iou_thres" \notin DOMAIN me THEN [ret |-> 0, raised |-> "AttributeError"]
    ELSE LET above(i) ==
                 \E j \in DOMAIN gt_boxes :
                     LET o == Iof(dt_boxes[i], gt_boxes[j])
                     IN  o.den > 0 /\ o.num * 100 > me.iou_thres * o.den
             rows == {i \in DOMAIN dt_boxes : above(i)}
         IN  [ret |-> Cardinality(rows), raised |-> NONE]

GetIgnores(dt_boxes, gt_boxes) ==
    /\ self.cls = "CityPersonMetric"
    /\ self.ready
    /\ LET r == GetIgnoresRun(self, dt_boxes, gt_boxes)
       IN  /\ ret' = r.ret
           /\ raised' = r.raised
    /\ op' = [name |-> "get_ignores", dt_boxes |-> dt_boxes, gt_boxes |-> gt_boxes]
    /\ calls' = IF gt_boxes = <<>> THEN <<>> ELSE <<Call("bbox_overlaps")>>
    /\ written' = <<>>
    /\ UNCHANGED <<self, caller_results, files, tmp_dirs>>

\* ------------------------------- CityPersonDataset and CocoPersonDataset

\* The most images an annotation file holds.
MaxImgs == 2

\* How often a caller hands one list of results to format_results or
\* evaluate, which rewrite its arrays in place.
MaxPasses == 2

DatasetClasses == {"CityPersonDataset", "CocoPersonDataset"}

\* An (N, 5) array of detections: x1, y1, x2, y2, score.
Rows0 == <<>>
Rows2 == <<  <<1, 2, 4, 4, 90>>, <<0, 1, 2, 5, 25>>  >>

\* What results[idx] can be: a list with one array per class, a tuple
\* (det, seg) with one mask per box, an array of proposals, or a dict.
ListItem(rows) == [type |-> "list", det |-> <<rows>>, seg |-> <<>>, arr |-> <<>>]
TupleItem(rows) ==
    [type |-> "tuple", det |-> <<rows>>,
     seg |-> <<[i \in 1..Len(rows) |-> [counts |-> "rle", is_bytes |-> TRUE]]>>,
     arr |-> <<>>]
ArrayItem(rows) == [type |-> "ndarray", det |-> <<>>, seg |-> <<>>, arr |-> rows]
DictItem == [type |-> "dict", det |-> <<>>, seg |-> <<>>, arr |-> <<>>]

DsItemKinds ==
    {{ListItem(Rows0), ListItem(Rows2)}, {TupleItem(Rows2)}, {ArrayItem(Rows2)},
     {DictItem}}

\* The results a caller may hold for a data set: all of one kind.
DsHeld ==
    {Held(l, items) : l \in BOOLEAN,
                      items \in UNION {SeqsUpTo(K, MaxImgs) : K \in DsItemKinds}}

\* What the caller passes: the list it holds, or its first one.
PassedBy(held, fresh) == IF held.fresh THEN fresh ELSE {held}

\* The most annotations an annotation file, or one raw_ann_info, holds.
MaxAnns == 2

\* METAINFO['classes'] of the two data sets.
Classes(cls) ==
    IF cls = "CocoPersonDataset" THEN {"person"}
    ELSE
    {"person", "bicycle", "car", "motorcycle", "airplane", "bus", "train",
     "truck", "boat", "traffic light", "fire hydrant", "stop sign",
     "parking meter", "bench", "bird", "cat", "dog", "horse", "sheep", "cow",
     "elephant", "bear", "zebra", "giraffe", "backpack", "umbrella",
     "handbag", "tie", "suitcase", "frisbee", "skis", "snowboard",
     "sports ball", "kite", "baseball bat", "baseball glove", "skateboard",
     "surfboard", "tennis racket", "bottle", "wine glass", "cup", "fork",
     "knife", "spoon", "bowl", "banana", "apple", "sandwich", "orange",
     "broccoli", "carrot", "hot dog", "pizza", "donut", "cake", "chair",
     "couch", "potted plant", "bed", "dining table", "toilet", "tv",
     "laptop", "mouse", "remote", "keyboard", "cell phone", "microwave",
     "oven", "toaster", "sink", "refrigerator", "book", "clock", "vase",
     "scissors", "teddy bear", "hair drier", "toothbrush"}

\* The 'categories' of an annotation file, in file order.
PersonCat == [id |-> 1, name |-> "person"]
CarCat == [id |-> 2, name |-> "car"]
CatTables == {<<PersonCat>>, <<CarCat, PersonCat>>}

\* The 'images' of an annotation file, by id; file_name is stem and extension.
ImgInfo(id) ==
    [id |-> id, width |-> 5 - id, height |-> 4 - id,
     file_name |-> <<"munster", "jpg">>]

\* The boxes [x1, y1, w, h] of annotations: inside every image, cut by the
\* left and right edges of the image, past the right edge, and below the
\* bottom edge of the first image.
InsideBox == <<0, 0, 1, 1>>
CutBox == <<-1, 0, 9, 1>>
OutsideBox == <<5, 0, 2, 1>>
BelowBox == <<0, 3, 1, 2>>
AnnBoxes == {InsideBox, CutBox, OutsideBox, BelowBox}

\* The optional keys of an annotation.
AnnExtras ==
    {<<>>, [ignore |-> 1], [iscrowd |-> 1], [ignore |-> 0, iscrowd |-> 0],
     [iscrowd |-> 0, segmentation |-> <<"polygon">>]}

Ann(id, image_id, bbox, category_id, extra) ==
    [id |-> id, image_id |-> image_id, bbox |-> bbox,
     category_id |-> category_id] @@ extra

\* The raw_ann_info lists parse_data_info is given.
ParseAnns ==
    {Ann(1, 1, b, c, e) : b \in AnnBoxes, c \in {1, 2}, e \in AnnExtras}

\* The data sets constructed: each class with the data_prefix that
\* BaseDataset.__init__ leaves it.
LoadArgs ==
    {[cls |-> "CocoPersonDataset", data_prefix |-> [img |-> "leftImg8bit"]],
     [cls |-> "CityPersonDataset",
      data_prefix |-> [img |-> "leftImg8bit", seg |-> "gtFine"]]}

\* An annotation file: its categories, its image ids in the order
\* get_img_ids() gives them, and its annotations in file order.
ImgIdLists ==
    {ids \in SeqsUpTo(1..MaxImgs, MaxImgs) :
        \A i, j \in DOMAIN ids : i # j => ids[i] # ids[j]}

FileAnns ==
    {Ann(id, im, b, 1, <<>>) :
        id \in 1..2, im \in 1..MaxImgs, b \in {InsideBox, OutsideBox}}

AnnDb(cats, img_ids, anns) == [cats |-> cats, img_ids |-> img_ids, anns |-> anns]

AnnDbs ==
    {AnnDb(c, ids, anns) :
        c \in CatTables, ids \in ImgIdLists, anns \in SeqsUpTo(FileAnns, MaxAnns)}

\* An annotation file of n images and no annotation.
BlankDb(n) == AnnDb(<<PersonCat>>, [i \in 1..n |-> i], <<>>)

\* coco.get_cat_ids(cat_names=...): the ids of the categories with one of
\* the names, in file order.
get_cat_ids(cats, cat_names) ==
    LET id(c) == c.id
        named(c) == c.name \in cat_names
        kept == SelectSeq(cats, named)
    IN  [i \in DOMAIN kept |-> id(kept[i])]

\* {cat_id: i for i, cat_id in enumerate(cat_ids)}
cat2label(cat_ids) ==
    [c \in {cat_ids[i] : i \in DOMAIN cat_ids} |->
        (CHOOSE i \in DOMAIN cat_ids :
            /\ cat_ids[i] = c
            /\ \A j \in DOMAIN cat_ids : cat_ids[j] = c => j <= i) - 1]

\* coco.get_ann_ids(img_ids=[img_id]): the ids of the image's annotations, in
\* file order.
get_ann_ids(db, img_id) ==
    LET of_img(a) == a.image_id = img_id
        kept == SelectSeq(db.anns, of_img)
    IN  [i \in DOMAIN kept |-> kept[i].id]

\* coco.load_anns(ann_ids): the annotation indexed under each id, which is the
\* last one of the file that bears it.
load_anns(db, ann_ids) ==
    [i \in DOMAIN ann_ids |->
        db.anns[CHOOSE k \in DOMAIN db.anns :
                    /\ db.anns[k].id = ann_ids[i]
                    /\ \A j \in DOMAIN db.anns : db.anns[j].id = ann_ids[i] => j <= k]]

\* parse_data_info() that tests the area of the box as annotated, not as
\* clipped to the image.
ParseInstance_Unclipped(me, img_info, ann) ==
    LET x1 == ann.bbox[1]
        y1 == ann.bbox[2]
        w == ann.bbox[3]
        h == ann.bbox[4]
        instance ==
            [ignore_flag |-> IF Get(ann, "iscrowd", 0) # 0 THEN 1 ELSE 0,
             bbox |-> <<x1, y1, x1 + w, y1 + h>>,
             bbox_label |-> me.cat2label[ann.category_id]]
    IN  IF Get(ann, "ignore", 0) # 0 THEN <<>>
        ELSE IF w * h = 0 THEN <<>>
        ELSE IF ~InList(ann.category_id, me.cat_ids) THEN <<>>
        ELSE IF Get(ann, "segmentation", <<>>) # <<>>
        THEN <<instance @@ [mask |-> ann.segmentation]>>
        ELSE <<instance>>

\* One pass of the loop of parse_data_info: the instance an annotation
\* gives, or none.
ParseInstance(me, img_info, ann) ==
    LET x1 == ann.bbox[1]
        y1 == ann.bbox[2]
        w == ann.bbox[3]
        h == ann.bbox[4]
        inter_w == Max(0, Min(x1 + w, img_info.width) - Max(x1, 0))
        inter_h == Max(0, Min(y1 + h, img_info.height) - Max(y1, 0))
        instance ==
            [ignore_flag |-> IF Get(ann, "iscrowd", 0) # 0 THEN 1 ELSE 0,
             bbox |-> <<x1, y1, x1 + w, y1 + h>>,
             bbox_label |-> me.cat2label[ann.category_id]]
    IN  IF Get(ann, "ignore", 0) # 0 THEN <<>>
        ELSE IF inter_w * inter_h = 0 THEN <<>>
        ELSE IF ~InList(ann.category_id, me.cat_ids) THEN <<>>
        ELSE IF Get(ann, "segmentation", <<>>) # <<>>
        THEN <<instance @@ [mask |-> ann.segmentation]>>
        ELSE <<instance>>

\* parse_data_info(raw_data_info) on a data set whose cat_ids, cat2label,
\* data_prefix and seg_map_suffix are set.
parse_data_info(me, raw_data_info) ==
    LET img_info == raw_data_info.raw_img_info
        ann_info == raw_data_info.raw_ann_info
    IN  [img_path |-> <<me.data_prefix.img>> \o img_info.file_name,
         img_id |-> img_info.img_id,
         seg_map_path |->
             IF Get(me.data_prefix, "seg", "") # ""
             THEN <<me.data_prefix.seg, img_info.file_name[1], me.seg_map_suffix>>
             ELSE NoPrefix,
         height |-> img_info.height,
         width |-> img_info.width,
         instances |->
             Flatten([i \in DOMAIN ann_info |->
                         ParseInstance(me, img_info, ann_info[i])])]

\* load_data_list() that asserts nothing about the annotation ids.
LoadAssertFails_Never(total_ann_ids) == FALSE

\* The assertion of load_data_list under ANN_ID_UNIQUE = True fails.
LoadAssertFails(total_ann_ids) ==
    Cardinality({total_ann_ids[i] : i \in DOMAIN total_ann_ids}) # Len(total_ann_ids)

\* The data set while load_data_list() runs: self.coco is the file read.
Loading(cls, db, data_prefix) ==
    LET cat_ids == get_cat_ids(db.cats, Classes(cls))
    IN  [cls |-> cls, ready |-> TRUE, ann_file |-> "val_gt.json",
         data_prefix |-> data_prefix, seg_map_suffix |-> ".png",
         cat_ids |-> cat_ids, cat2label |-> cat2label(cat_ids),
         has_coco |-> TRUE, has_img_ids |-> FALSE, img_ids |-> <<>>]

\* load_data_list(), which BaseDetDataset.__init__ runs on the annotation
\* file: one data_info per image, then self.coco deleted; no line of it sets
\* self.img_ids. A failed assertion leaves no data set.
LoadDataListRun(cls, db, data_prefix) ==
    LET me == Loading(cls, db, data_prefix)
        img_ids == db.img_ids
        ann_ids(i) == get_ann_ids(db, img_ids[i])
        raw(i) ==
            [raw_ann_info |-> load_anns(db, ann_ids(i)),
             raw_img_info |-> ImgInfo(img_ids[i]) @@ [img_id |-> img_ids[i]]]
        data_list == [i \in DOMAIN img_ids |-> parse_data_info(me, raw(i))]
        total_ann_ids == Flatten([i \in DOMAIN img_ids |-> ann_ids(i)])
        cs == <<Call("get_local_path"), Call("COCO"), Call("get_cat_ids"),
                Call("get_img_ids")>>
              \o Flatten([i \in DOMAIN img_ids |->
                            <<Call("load_imgs"), Call("get_ann_ids"),
                              Call("load_anns")>>])
    IN  IF LoadAssertFails(total_ann_ids)
        THEN [self |-> [cls |-> NONE], ret |-> <<>>, raised |-> "AssertionError",
              calls |-> cs]
        ELSE [self |-> [me EXCEPT !.has_coco = FALSE]
                       @@ [len |-> Len(data_list), data_list |-> data_list],
              ret |-> data_list, raised |-> NONE, calls |-> cs]

LoadDataList(cls, db, data_prefix) ==
    /\ self.cls = NONE
    /\ LET r == LoadDataListRun(cls, db, data_prefix)
       IN  /\ self' = r.self
           /\ ret' = r.ret
           /\ raised' = r.raised
           /\ calls' = r.calls
    /\ op' = [name |-> "load_data_list", cls |-> cls, db |-> db]
    /\ written' = <<>>
    /\ UNCHANGED <<caller_results, files, tmp_dirs>>

\* parse_data_info(raw_data_info) called on a data set.
ParseDataInfo(raw_data_info) ==
    /\ self.cls \in DatasetClasses
    /\ op' = [name |-> "parse_data_info", raw |-> raw_data_info]
    /\ ret' = parse_data_info(self, raw_data_info)
    /\ raised' = NONE
    /\ calls' = <<>>
    /\ written' = <<>>
    /\ UNCHANGED <<self, caller_results, files, tmp_dirs>>

IsDataset == self.cls \in DatasetClasses

\* get_subset_by_classes(): the one method that sets self.img_ids; it reads
\* self.coco first.
GetSubsetByClasses ==
    /\ IsDataset
    /\ IF self.has_coco
       THEN /\ self' = [self EXCEPT !.has_img_ids = TRUE,
                                    !.img_ids = [i \in 1..self.len |-> i]]
            /\ raised' = NONE
       ELSE /\ self' = self
            /\ raised' = "AttributeError"
    /\ op' = [name |-> "get_subset_by_classes"]
    /\ ret' = NONE
    /\ calls' = <<>>
    /\ written' = <<>>
    /\ UNCHANGED <<caller_results, files, tmp_dirs>>

\* xyxy2xywh of the data sets
ds_xyxy2xywh(bbox) == <<bbox[1], bbox[2], bbox[3] - bbox[1], bbox[4] - bbox[2]>>

\* The exception that ends the loop `for idx in range(len(self))` of
\* _det2json, _segm2json and _proposal2json, NONE when it runs through.
JsonLoopRaises(me, items) ==
    IF me.len = 0 THEN NONE
    ELSE IF ~me.has_img_ids THEN "AttributeError"
    ELSE IF Len(me.img_ids) < me.len \/ Len(items) < me.len THEN "IndexError"
    ELSE IF \E k \in 1..me.len : Len(items[k].det) > Len(me.cat_ids)
    THEN "IndexError"
    ELSE NONE

BoxRecord(img_id, row, cat) ==
    [image_id |-> img_id, bbox |-> ds_xyxy2xywh(row), score |-> row[5],
     category_id |-> cat]

\* _det2json, and the bbox half of _segm2json
det2json(me, items) ==
    Flatten([k \in 1..me.len |->
        Flatten([label \in 1..Len(items[k].det) |->
            [i \in 1..Len(items[k].det[label]) |->
                BoxRecord(me.img_ids[k], items[k].det[label][i],
                          me.cat_ids[label])]])])

\* The segm half of _segm2json: bytes counts are decoded.
segm2json(me, items) ==
    Flatten([k \in 1..me.len |->
        Flatten([label \in 1..Len(items[k].det) |->
            [i \in 1..Len(items[k].det[label]) |->
                [image_id |-> me.img_ids[k],
                 bbox |-> ds_xyxy2xywh(items[k].det[label][i]),
                 score |-> items[k].det[label][i][5],
                 category_id |-> me.cat_ids[label],
                 segmentation |-> [items[k].seg[label][i] EXCEPT !.is_bytes = FALSE]]]])])

\* _proposal2json
proposal2json(me, items) ==
    Flatten([k \in 1..me.len |->
        [i \in 1..Len(items[k].arr) |-> BoxRecord(me.img_ids[k], items[k].arr[i], 1)]])

ExtJson(prefix, ext) == Append(prefix, ext)

\* results2json(results, outfile_prefix): the exception, the dict returned
\* and the files dumped, in order.
Results2JsonRun(me, items, outfile_prefix) ==
    LET kind == items[1].type
        bbox == ExtJson(outfile_prefix, ".bbox.json")
        segm == ExtJson(outfile_prefix, ".segm.json")
        prop == ExtJson(outfile_prefix, ".proposal.json")
        fail(e) == [raised |-> e, ret |-> NONE, dumps |-> <<>>]
    IN  IF items = <<>> THEN fail("IndexError")
        ELSE IF kind \notin {"list", "tuple", "ndarray"} THEN fail("TypeError")
        ELSE IF JsonLoopRaises(me, items) # NONE THEN fail(JsonLoopRaises(me, items))
        ELSE IF kind = "list"
        THEN [raised |-> NONE,
              ret |-> ("bbox" :> bbox) @@ ("proposal" :> bbox),
              dumps |-> <<[path |-> bbox, content |-> det2json(me, items)]>>]
        ELSE IF kind = "tuple"
        THEN [raised |-> NONE,
              ret |-> ("bbox" :> bbox) @@ ("proposal" :> bbox) @@ ("segm" :> segm),
              dumps |-> <<[path |-> bbox, content |-> det2json(me, items)],
                          [path |-> segm, content |-> segm2json(me, items)]>>]
        ELSE [raised |-> NONE,
              ret |-> ("proposal" :> prop),
              dumps |-> <<[path |-> prop, content |-> proposal2json(me, items)]>>]

RECURSIVE WriteAll(_, _)
WriteAll(fs, dumps) ==
    IF dumps = <<>> THEN fs
    ELSE WriteAll(WriteFile(fs, Head(dumps).path, Head(dumps).content), Tail(dumps))

DsResults2Json(held, outfile_prefix) ==
    /\ IsDataset
    /\ LET r == Results2JsonRun(self, held.items, outfile_prefix)
       IN  /\ raised' = r.raised
           /\ ret' = r.ret
           /\ files' = WriteAll(files, r.dumps)
           /\ written' = [i \in 1..Len(r.dumps) |-> r.dumps[i].path]
    /\ op' = [name |-> "results2json", results |-> held, prefix |-> outfile_prefix]
    /\ caller_results' = [held EXCEPT !.fresh = FALSE]
    /\ calls' = <<>>
    /\ UNCHANGED <<self, tmp_dirs>>

\* boxes[:, [2, 3]] -= boxes[:, [0, 1]], on the caller's array
SubtractCorner(rows) ==
    [i \in 1..Len(rows) |->
        <<rows[i][1], rows[i][2], rows[i][3] - rows[i][1], rows[i][4] - rows[i][2],
          rows[i][5]>>]

\* `boxes = boxes[0]` and the lines after it: a list or a (det, seg) tuple
\* leads to the array of class 0; a row of a proposal array has one axis and
\* a dict has no key 0.
BoxesRaise(item) ==
    IF item.type = "ndarray" THEN "IndexError"
    ELSE IF item.type = "dict" THEN "KeyError"
    ELSE NONE

\* The records of one image, from the rewritten array of class 0: the image
\* id is the position plus one.
ImageRecords(rows, id) ==
    [i \in 1..Len(rows) |->
        [image_id |-> id + 1, category_id |-> 1,
         bbox |-> <<rows[i][1], rows[i][2], rows[i][3], rows[i][4]>>,
         score |-> rows[i][5]]]

\* format_results of the data sets: the exception, the caller's list after
\* the call, and the pair returned with the records written.
DsFormatResultsRun(me, held, jsonfile_prefix, tmp_name) ==
    LET items == held.items
        bad == {k \in 1..Len(items) : BoxesRaise(items[k]) # NONE}
        first == IF bad = {} THEN Len(items) + 1
                 ELSE CHOOSE k \in bad : \A j \in bad : k <= j
        after == [k \in 1..Len(items) |->
                     IF k < first
                     THEN [items[k] EXCEPT !.det[1] = SubtractCorner(@)]
                     ELSE items[k]]
        tmp_dir == IF jsonfile_prefix = NoPrefix THEN tmp_name ELSE NONE
        prefix == IF jsonfile_prefix = NoPrefix THEN <<tmp_name, "results">>
                  ELSE jsonfile_prefix
        none == [path |-> <<>>, tmp_dir |-> NONE, content |-> <<>>]
    IN  IF ~held.is_list \/ Len(items) # me.len
        THEN [raised |-> "AssertionError", items |-> items] @@ none
        ELSE IF bad # {}
        THEN [raised |-> BoxesRaise(items[first]), items |-> after] @@ none
        ELSE [raised |-> NONE, items |-> after,
              path |-> BboxJson(prefix), tmp_dir |-> tmp_dir,
              content |-> Flatten([k \in 1..Len(items) |->
                                      ImageRecords(after[k].det[1], k - 1)])]

DsFormatResults(held, jsonfile_prefix, tmp_name) ==
    /\ IsDataset
    /\ held.passes < MaxPasses
    /\ jsonfile_prefix = NoPrefix => tmp_name \notin tmp_dirs
    /\ LET r == DsFormatResultsRun(self, held, jsonfile_prefix, tmp_name)
       IN  /\ raised' = r.raised
           /\ caller_results' = [held EXCEPT !.fresh = FALSE, !.items = r.items,
                                             !.passes = @ + 1]
           /\ IF r.raised = NONE
              THEN /\ ret' = [path |-> r.path, tmp_dir |-> r.tmp_dir]
                   /\ files' = WriteFile(files, r.path, r.content)
                   /\ written' = <<r.path>>
                   /\ tmp_dirs' = IF r.tmp_dir = NONE THEN tmp_dirs
                                  ELSE tmp_dirs \cup {r.tmp_dir}
              ELSE /\ ret' = NONE
                   /\ written' = <<>>
                   /\ UNCHANGED <<files, tmp_dirs>>
    /\ op' = [name |-> "format_results", results |-> held,
              prefix |-> jsonfile_prefix, tmp_before |-> tmp_dirs]
    /\ calls' = <<>>
    /\ UNCHANGED self

\* allowed_metrics of CityPersonDataset.evaluate
ds_allowed_metrics == <<"bbox", "segm", "proposal", "proposal_fast">>

\* evaluate that checks the first metric name only.
DsMetricsRejected_FirstOnly(ms) ==
    ms # <<>> /\ ~InList(ms[1], ds_allowed_metrics)

\* The loop over metrics of evaluate: TRUE when it raises KeyError.
DsMetricsRejected(ms) == \E i \in 1..Len(ms) : ~InList(ms[i], ds_allowed_metrics)

\* The metric argument of evaluate: a str, or a list of str.
DsMetricArgs ==
    {[is_list |-> FALSE, v |-> <<m>>] : m \in {"bbox", "proposal_fast", "MR"}}
    \cup {[is_list |-> TRUE, v |-> s] :
            s \in {<<>>, <<"bbox">>, <<"segm", "proposal">>, <<"bbox", "mAP">>}}

\* CityPersonDataset.evaluate(results, metric, jsonfile_prefix=...): the
\* temporary directory is a local of the call and goes when the call ends.
DsEvaluate(held, metric, jsonfile_prefix, tmp_name) ==
    /\ self.cls = "CityPersonDataset"
    /\ held.passes < MaxPasses
    /\ tmp_name \notin tmp_dirs
    /\ op' = [name |-> "evaluate", results |-> held, metric |-> metric,
              prefix |-> jsonfile_prefix, files_before |-> files,
              tmp_before |-> tmp_dirs]
    /\ LET metrics == IF metric.is_list THEN metric.v ELSE <<metric.v[1]>>
           r == DsFormatResultsRun(self, held, jsonfile_prefix, tmp_name)
           fs == WriteFile(files, r.path, r.content)
           run == RunSetups(Range(0, SetupLast), self.ann_file, r.path, fs,
                            CityPersonModuleNames, <<>>)
       IN  IF DsMetricsRejected(metrics)
           THEN /\ raised' = "KeyError"
                /\ caller_results' = [held EXCEPT !.fresh = FALSE]
                /\ ret' = NONE
                /\ calls' = <<>>
                /\ written' = <<>>
                /\ files' = files
           ELSE IF r.raised # NONE
           THEN /\ raised' = r.raised
                /\ caller_results' = [held EXCEPT !.fresh = FALSE, !.items = r.items,
                                                  !.passes = @ + 1]
                /\ ret' = NONE
                /\ calls' = <<>>
                /\ written' = <<>>
                /\ files' = files
           ELSE /\ raised' = run.raised
                /\ caller_results' = [held EXCEPT !.fresh = FALSE, !.items = r.items,
                                                  !.passes = @ + 1]
                /\ ret' = IF run.raised = NONE THEN EvalResults(run.mean_MR) ELSE NONE
                /\ calls' = run.calls
                /\ written' = <<r.path>>
                /\ files' = IF r.tmp_dir = NONE THEN fs ELSE RemoveDir(fs, r.tmp_dir)
    /\ UNCHANGED <<self, tmp_dirs>>

\* ------------------------------------------------------ HybridConvTrans

\* The arguments of HybridConvTrans.__init__: kernel_size 0 stands for None,
\* which equals neither 3 nor 5.
HybridArgs ==
    [embed_dim : {4, 6}, num_heads : {1, 2, 4}, kernel_size : {3, 5, 1, 0},
     linear : BOOLEAN, sr_ratio : {1, 2}]

Module(kind, k) == [kind |-> kind, k |-> k]

\* The submodules __init__ builds whatever the kernel_size.
CommonModules ==
    ("q" :> Module("Linear", 0)) @@ ("kv" :> Module("Linear", 0))
    @@ ("proj" :> Module("Linear", 0)) @@ ("proj_drop" :> Module("Dropout", 0))
    @@ ("act" :> Module("GELU", 0))

\* The submodules __init__ builds for the kernel_size: k is the kernel size
\* of a convolution, the output size of a pooling.
BranchModules(a) ==
    IF a.kernel_size = 3
    THEN ("fc" :> Module("Conv2d", 1)) @@ ("dep_conv" :> Module("Conv2d", 3))
         @@ ("conv_norm" :> Module("LayerNorm", 0))
    ELSE IF a.kernel_size = 5
    THEN ("fc" :> Module("Conv2d", 1)) @@ ("dep_conv" :> Module("Conv2d", 5))
         @@ ("conv_norm" :> Module("LayerNorm", 0))
    ELSE ("attn_drop" :> Module("Dropout", 0))
         @@ (IF ~a.linear
             THEN IF a.sr_ratio > 1
                  THEN ("sr" :> Module("Conv2d", a.sr_ratio))
                       @@ ("norm" :> Module("LayerNorm", 0))
                  ELSE <<>>
             ELSE ("pool" :> Module("AdaptiveAvgPool2d", 7))
                  @@ ("sr" :> Module("Conv2d", 1))
                  @@ ("norm" :> Module("LayerNorm", 0)))

\* HybridConvTrans.__init__.
HybridInitRun(a) ==
    IF a.embed_dim % a.num_heads # 0
    THEN [self |-> [cls |-> NONE], raised |-> "AssertionError"]
    ELSE [self |-> [cls |-> "HybridConvTrans", embed_dim |-> a.embed_dim,
                    num_heads |-> a.num_heads, kernel_size |-> a.kernel_size,
                    linear |-> a.linear, sr_ratio |-> a.sr_ratio,
                    modules |-> CommonModules @@ BranchModules(a)],
          raised |-> NONE]

HybridInit(a) ==
    /\ self.cls = NONE
    /\ LET r == HybridInitRun(a)
       IN  /\ self' = r.self
           /\ raised' = r.raised
    /\ op' = [name |-> "HybridConvTrans.__init__", args |-> a]
    /\ ret' = NONE
    /\ calls' = <<>>
    /\ written' = <<>>
    /\ UNCHANGED <<caller_results, files, tmp_dirs>>

\* A tensor as the expression that computes it: the submodule or operation
\* applied, and the tensors it is applied to.
Tensor(f, in) == [f |-> f, in |-> in]

\* The expression forward returns for the input x, with the submodules in
\* the order it calls them.
ForwardExpr(me) ==
    LET x == Tensor("x", <<>>)
        q == Tensor("q", <<x>>)
        kv_ == Tensor("kv", <<x>>)
        qkv == Tensor("cat", <<q, kv_>>)
        out_conv ==
            Tensor("act", <<Tensor("conv_norm",
                                   <<Tensor("dep_conv", <<Tensor("fc", <<qkv>>)>>)>>)>>)
        reduced == Tensor("norm", <<Tensor("sr", <<x>>)>>)
        x_ == IF ~me.linear THEN reduced ELSE Tensor("act", <<reduced>>)
        kv == IF ~me.linear /\ ~(me.sr_ratio > 1) THEN Tensor("kv", <<x>>)
              ELSE Tensor("kv", <<x_>>)
        attn == Tensor("attn_drop", <<Tensor("softmax", <<Tensor("matmul", <<q, kv>>)>>)>>)
        out_mhsa == Tensor("matmul", <<attn, kv>>)
        conv_used == <<"q", "kv", "fc", "dep_conv", "conv_norm", "act">>
        mhsa_used ==
            <<"q", "kv">>
            \o (IF ~me.linear
                THEN IF me.sr_ratio > 1 THEN <<"sr", "norm", "kv">> ELSE <<"kv">>
                ELSE <<"sr", "norm", "act", "kv">>)
            \o <<"attn_drop">>
        fed == IF me.kernel_size = 3 THEN out_conv
               ELSE IF me.kernel_size = 5 THEN out_conv
               ELSE out_mhsa
        used == IF me.kernel_size = 3 THEN conv_used
                ELSE IF me.kernel_size = 5 THEN conv_used
                ELSE mhsa_used
    IN  [ret |-> Tensor("proj_drop", <<Tensor("proj", <<fed>>)>>),
         used |-> used \o <<"proj", "proj_drop">>]

\* HybridConvTrans.forward(x, H, W) on N = H * W tokens. A submodule that
\* __init__ has not built is a missing attribute.
Forward(H, W) ==
    /\ self.cls = "HybridConvTrans"
    /\ LET e == ForwardExpr(self)
       IN  IF \E i \in DOMAIN e.used : e.used[i] \notin DOMAIN self.modules
           THEN /\ raised' = "AttributeError"
                /\ ret' = NONE
                /\ calls' = <<>>
           ELSE /\ raised' = NONE
                /\ ret' = e.ret
                /\ calls' = [i \in DOMAIN e.used |-> Call(e.used[i])]
    /\ op' = [name |-> "forward", H |-> H, W |-> W]
    /\ written' = <<>>
    /\ UNCHANGED <<self, caller_results, files, tmp_dirs>>

\* ------------------------------------------------------- specifications

Init ==
    /\ self = [cls |-> NONE]
    /\ caller_results = NoResults
    /\ files = {}
    /\ tmp_dirs = {}
    /\ op = [name |-> NONE]
    /\ ret = NONE
    /\ raised = NONE
    /\ calls = <<>>
    /\ written = <<>>

Next ==
    \/ \E a \in AnnFiles \cup {NONE}, m \in MetricArgs, f \in BOOLEAN, p \in OptPrefixes :
           MetricInit(a, m, f, p)
    \/ \E ds \in Batches : Process(ds)
    \/ \E t \in TmpNames : ComputeMetrics(t)
    \/ \E dt \in DtBoxLists, gt \in GtBoxLists : GetIgnores(dt, gt)
    \/ \E c \in DatasetClasses, n \in 0..MaxImgs :
           LoadDataList(c, BlankDb(n), [img |-> "leftImg8bit"])
    \/ GetSubsetByClasses
    \/ \E h \in PassedBy(caller_results, DsHeld), p \in Prefixes : DsResults2Json(h, p)
    \/ \E h \in PassedBy(caller_results, DsHeld), p \in OptPrefixes, t \in TmpNames :
           DsFormatResults(h, p, t)
    \/ \E h \in PassedBy(caller_results, DsHeld), m \in DsMetricArgs,
          p \in OptPrefixes, t \in TmpNames : DsEvaluate(h, m, p, t)
    \/ \E d \in TmpNames : Cleanup(d)

Spec == Init /\ [][Next]_vars

\* format_results alone: an object of one of the three classes, and a caller
\* that holds a list of results for it.
FmtPredictions ==
    {[has_img_id |-> h, img_id |-> IF h THEN 7 ELSE 0] @@ PredInstances(d) :
        h \in BOOLEAN, d \in DetLists}

MetricHeld == {Held(TRUE, items) : items \in SeqsUpTo(FmtPredictions, MaxResults)}

InitFormat ==
    /\ \/ /\ self = MetricInitRun("val_gt.json", [is_list |-> TRUE, v |-> <<"MR">>],
                                  FALSE, NoPrefix).self
          /\ caller_results \in MetricHeld
       \/ /\ self \in {LoadDataListRun(c, BlankDb(n), [img |-> "leftImg8bit"]).self :
                          c \in DatasetClasses, n \in 0..MaxImgs}
          /\ caller_results \in DsHeld
    /\ files = {}
    /\ tmp_dirs = {}
    /\ op = [name |-> NONE]
    /\ ret = NONE
    /\ raised = NONE
    /\ calls = <<>>
    /\ written = <<>>

NextFormat ==
    \/ \E p \in OptPrefixes, t \in TmpNames : MetricFormatResults(p, t)
    \/ \E p \in OptPrefixes, t \in TmpNames : DsFormatResults(caller_results, p, t)
    \/ \E d \in TmpNames : Cleanup(d)

SpecFormat == InitFormat /\ [][NextFormat]_vars

\* load_data_list alone: the annotation file is on disk, and a data set of
\* either class is constructed on it.
AnnFileOnDisk == (CHOOSE f \in files : f.path = <<"val_gt.json">>).content

InitLoad ==
    /\ self = [cls |-> NONE]
    /\ caller_results = NoResults
    /\ files \in {{[path |-> <<"val_gt.json">>, content |-> db]} : db \in AnnDbs}
    /\ tmp_dirs = {}
    /\ op = [name |-> NONE]
    /\ ret = NONE
    /\ raised = NONE
    /\ calls = <<>>
    /\ written = <<>>

NextLoad == \E a \in LoadArgs : LoadDataList(a.cls, AnnFileOnDisk, a.data_prefix)

SpecLoad == InitLoad /\ [][NextLoad]_vars

\* HybridConvTrans alone: constructed, then run on feature maps of up to
\* 2 x 2 tokens.
NextHybrid ==
    \/ \E a \in HybridArgs : HybridInit(a)
    \/ \E H \in 1..2, W \in 1..2 : Forward(H, W)

SpecHybrid == Init /\ [][NextHybrid]_vars

\* parse_data_info alone: a loaded data set, and a caller that holds the
\* raw_data_info of the first image with up to MaxAnns annotations.
RawDataInfos ==
    {[raw_img_info |-> ImgInfo(1) @@ [img_id |-> 1], raw_ann_info |-> anns] :
        anns \in SeqsUpTo(ParseAnns, MaxAnns)}

InitParse ==
    /\ self \in {LoadDataListRun(a.cls, AnnDb(<<CarCat, PersonCat>>, <<1>>, <<>>),
                                 a.data_prefix).self : a \in LoadArgs}
    /\ caller_results \in {[raw_data_info |-> r] : r \in RawDataInfos}
    /\ files = {}
    /\ tmp_dirs = {}
    /\ op = [name |-> NONE]
    /\ ret = NONE
    /\ raised = NONE
    /\ calls = <<>>
    /\ written = <<>>

NextParse == ParseDataInfo(caller_results.raw_data_info)

SpecParse == InitParse /\ [][NextParse]_vars
\* ----------------------------------------------------------------- claims

IsMetric == self.cls = "CityPersonMetric"

\* The id_setup arguments of the COCOeval.evaluate calls, in call order.
RECURSIVE SetupsEvaluated(_)
SetupsEvaluated(cs) ==
    IF cs = <<>> THEN <<>>
    ELSE IF Head(cs).fn = "evaluate"
    THEN <<Head(cs).setup>> \o SetupsEvaluated(Tail(cs))
    ELSE SetupsEvaluated(Tail(cs))

MetricArgNames(metric) == {metric.v[i] : i \in 1..Len(metric.v)}

\* evaluate was called with allowed metric names on a list with one entry of
\* boxes per image of the data set.
EvaluateWellCalled ==
    /\ op.name = "evaluate"
    /\ MetricArgNames(op.metric) \subseteq {"bbox", "segm", "proposal", "proposal_fast"}
    /\ op.results.is_list
    /\ Len(op.results.items) = self.len
    /\ \A k \in 1..Len(op.results.items) : op.results.items[k].type \in {"list", "tuple"}

\* C1: compute_metrics (on the results of at least one sample) and
\* CityPersonDataset.evaluate (called well) run the setups 0, 1, 2, 3 in that
\* order and return a dict of exactly the keys 'Reasonable',
\* 'Reasonable_small', 'Reasonable_occ=heavy' and 'all', holding the Miss
\* Rates of setup 0, 1, 2 and 3.
C1_FourSetupsInOrder ==
    ((op.name = "compute_metrics" /\ op.results # <<>>) \/ EvaluateWellCalled)
    => /\ raised = NONE
       /\ SetupsEvaluated(calls) = <<0, 1, 2, 3>>
       /\ DOMAIN ret = {"Reasonable", "Reasonable_small", "Reasonable_occ=heavy", "all"}
       /\ ret["Reasonable"].id_setup = 0
       /\ ret["Reasonable_small"].id_setup = 1
       /\ ret["Reasonable_occ=heavy"].id_setup = 2
       /\ ret["all"].id_setup = 3

\* The number of detections in the results before position k (1-based).
RECURSIVE DetectionsBefore(_, _)
DetectionsBefore(items, k) ==
    IF k <= 1 THEN 0
    ELSE DetectionsBefore(items, k - 1) + Len(items[k - 1].labels)

FormatCalledOnMetric == op.name = "format_results" /\ IsMetric

\* C2: CityPersonMetric.format_results writes one record per detection, in
\* the order of the results and of the detections in a result: the record of
\* detection i of result k has the result's img_id (its 0-based position when
\* it has none) as image_id, the box as x, y, width, height, the score, and
\* category_id 1 whatever the label; there are as many records as labels.
C2_OneRecordPerDetection ==
    FormatCalledOnMetric =>
        LET items == op.results.items
            records == ReadFile(files, ret.path)
        IN  /\ Len(records) = DetectionsBefore(items, Len(items) + 1)
            /\ \A k \in 1..Len(items) : \A i \in 1..Len(items[k].labels) :
                 LET rec == records[DetectionsBefore(items, k) + i]
                     box == items[k].bboxes[i]
                 IN  /\ rec.image_id = IF items[k].has_img_id THEN items[k].img_id
                                       ELSE k - 1
                     /\ rec.bbox = <<box[1], box[2], box[3] - box[1], box[4] - box[2]>>
                     /\ rec.score = items[k].scores[i]
                     /\ rec.category_id = 1

\* format_results has written two results: the first without 'img_id' and
\* with two detections, one of them labelled 1, the second with an 'img_id'.
C2_Witness ==
    /\ FormatCalledOnMetric
    /\ Len(op.results.items) = 2
    /\ ~op.results.items[1].has_img_id
    /\ op.results.items[1].labels = <<1, 0>>
    /\ op.results.items[2].has_img_id
    /\ Len(op.results.items[2].labels) = 1
    /\ Len(ReadFile(files, ret.path)) = 3

\* The samples of a batch process() gets through: all of them, or those
\* before the first one that lacks 'instances' when there is no annotation
\* file.
Processed(data_samples, coco_api) ==
    LET stop == {k \in 1..Len(data_samples) :
                    coco_api = NONE /\ ~data_samples[k].has_instances}
    IN  IF stop = {} THEN Len(data_samples)
        ELSE (CHOOSE k \in stop : \A j \in stop : k <= j) - 1

\* C3: after process, self.results is what it was before the call followed by
\* one (gt, prediction) pair per sample processed, in order; the gt and the
\* prediction of a pair carry the sample's img_id, gt['width'] is ori_shape[1]
\* and gt['height'] is ori_shape[0] (0-based); no earlier pair is removed or
\* rewritten.  In every state each pair of self.results has one img_id.
C3_OnePairPerSample ==
    /\ (IsMetric /\ self.ready) =>
          \A k \in 1..Len(self.results) :
              self.results[k][1].img_id = self.results[k][2].img_id
    /\ op.name = "process" =>
          LET n == Processed(op.data_samples, self.coco_api)
              old == Len(op.before)
          IN  /\ Len(self.results) = old + n
              /\ \A k \in 1..old : self.results[k] = op.before[k]
              /\ \A k \in 1..n :
                   /\ self.results[old + k][1].img_id = op.data_samples[k].img_id
                   /\ self.results[old + k][2].img_id = op.data_samples[k].img_id
                   /\ self.results[old + k][1].width = op.data_samples[k].ori_shape[2]
                   /\ self.results[old + k][1].height = op.data_samples[k].ori_shape[1]
              /\ (raised = NONE <=> n = Len(op.data_samples))

\* process has added the pair of an image that is wider than high to a
\* self.results that held a pair already.
C3_Witness ==
    /\ op.name = "process"
    /\ raised = NONE
    /\ Len(op.before) = 1
    /\ Len(op.data_samples) = 1
    /\ op.data_samples[1].ori_shape = <<2, 3>>
    /\ Len(self.results) = 2

MetricInitCalled == op.name = "__init__" /\ IsMetric

\* C4: the constructor accepts 'AP', 'MR' and 'JI', alone or in a list: no
\* metric argument made of these names makes it raise KeyError.
C4_DocumentedMetricsAccepted ==
    (MetricInitCalled /\ MetricArgNames(op.metric) \subseteq {"AP", "MR", "JI"})
    => raised # "KeyError"

EvalSteps == {"evaluate", "accumulate", "summarize_nofile"}

\* C5: with format_only True, compute_metrics formats the results and makes
\* no COCOeval evaluate, accumulate or summarize call.
C5_FormatOnlySkipsEvaluation ==
    (op.name = "compute_metrics" /\ self.format_only)
    => \A i \in 1..Len(calls) : calls[i].fn \notin EvalSteps

\* C6: with an outfile_prefix, compute_metrics writes
\* '<outfile_prefix>.bbox.json'; it writes into a temporary directory only
\* when no outfile_prefix was given.
C6_WritesUnderOutfilePrefix ==
    (op.name = "compute_metrics" /\ raised = NONE)
    => /\ self.outfile_prefix # NoPrefix
            => written = <<self.outfile_prefix \o <<".bbox.json">>>>
       /\ (\E i \in 1..Len(written) : written[i][1] \in TmpNames)
            => self.outfile_prefix = NoPrefix

\* C7: __init__ with format_only=True and outfile_prefix=None (and metric
\* names it allows) ends with AssertionError, and with a metric name outside
\* allowed_metrics it ends with KeyError; either way it ends before the file
\* client and the COCO object are made.
C7_InitFailsBeforeLoading ==
    MetricInitCalled =>
        /\ (\E m \in MetricArgNames(op.metric) : ~InList(m, allowed_metrics))
              => raised = "KeyError"
        /\ ((\A m \in MetricArgNames(op.metric) : InList(m, allowed_metrics))
               /\ op.format_only /\ op.prefix = NoPrefix)
              => raised = "AssertionError"
        /\ raised \in {"KeyError", "AssertionError"}
              => /\ self.file_client = NONE
                 /\ self.coco_api = NONE
                 /\ calls = <<>>
                 /\ ~self.ready

\* __init__ was called with an annotation file, metric 'MR', format_only=True
\* and no outfile_prefix, and raised AssertionError.
C7_Witness ==
    /\ MetricInitCalled
    /\ op.ann_file # NONE
    /\ op.metric = [is_list |-> FALSE, v |-> <<"MR">>]
    /\ op.format_only /\ op.prefix = NoPrefix
    /\ raised = "AssertionError"

FormatReturned == op.name = "format_results" /\ raised = NONE

C9_DispatchOnFirstResult ==
    (op.name = "results2json" /\ op.results.items # <<>>) =>
        LET kind == op.results.items[1].type
            bbox == op.prefix \o <<".bbox.json">>
            segm == op.prefix \o <<".segm.json">>
            prop == op.prefix \o <<".proposal.json">>
        IN  /\ kind = "list"
                 => raised = NONE /\ ret = ("bbox" :> bbox) @@ ("proposal" :> bbox)
            /\ kind = "tuple"
                 => raised = NONE
                    /\ ret = ("bbox" :> bbox) @@ ("proposal" :> bbox) @@ ("segm" :> segm)
            /\ kind = "ndarray"
                 => raised = NONE /\ ret = ("proposal" :> prop)
            /\ kind \notin {"list", "tuple", "ndarray"}
                 => raised = "TypeError" /\ written = <<>>

\* C10: evaluate raises KeyError when a metric name, alone or anywhere in a
\* list, is outside 'bbox', 'segm', 'proposal', 'proposal_fast', and then it
\* has not run format_results: no file is written, no directory made and the
\* caller's arrays are as they were.
C10_KeyErrorBeforeFormatting ==
    (op.name = "evaluate"
       /\ \E m \in MetricArgNames(op.metric) :
             m \notin {"bbox", "segm", "proposal", "proposal_fast"})
    => /\ raised = "KeyError"
       /\ written = <<>>
       /\ calls = <<>>
       /\ files = op.files_before
       /\ tmp_dirs = op.tmp_before
       /\ caller_results.items = op.results.items
       /\ caller_results.passes = op.results.passes

\* evaluate got a list of two metric names, the second one unknown, and
\* results it could have formatted, and raised KeyError.
C10_Witness ==
    /\ op.name = "evaluate"
    /\ op.metric = [is_list |-> TRUE, v |-> <<"bbox", "mAP">>]
    /\ op.results.is_list
    /\ Len(op.results.items) = self.len
    /\ self.len = 2
    /\ \A k \in 1..2 : op.results.items[k] = ListItem(Rows2)
    /\ raised = "KeyError"

\* The annotations of op.db that load_data_list collects: those of an image
\* get_img_ids() names.
Collected(db) ==
    {k \in DOMAIN db.anns : InList(db.anns[k].image_id, db.img_ids)}

\* C11: load_data_list returns one parsed data_info per image id that
\* get_img_ids gives, in that order, and raises AssertionError when the
\* annotation ids collected over all images are not pairwise distinct. When
\* no two annotations of the file share an id, the data_info of an image
\* holds one instance per annotation of that image that lies inside it.
C11_OneInfoPerImageOrAssert ==
    op.name = "load_data_list" =>
        LET db == op.db
            distinct ==
                \A j, k \in Collected(db) : j # k => db.anns[j].id # db.anns[k].id
            unique ==
                \A j, k \in DOMAIN db.anns : j # k => db.anns[j].id # db.anns[k].id
            kept(img_id) ==
                {k \in DOMAIN db.anns :
                    db.anns[k].image_id = img_id /\ db.anns[k].bbox = InsideBox}
        IN  IF distinct
            THEN /\ raised = NONE
                 /\ Len(ret) = Len(db.img_ids)
                 /\ \A i \in DOMAIN ret :
                        /\ ret[i].img_id = db.img_ids[i]
                        /\ ret[i].width = ImgInfo(db.img_ids[i]).width
                        /\ ret[i].height = ImgInfo(db.img_ids[i]).height
                        /\ unique =>
                               Len(ret[i].instances) = Cardinality(kept(db.img_ids[i]))
            ELSE raised = "AssertionError" /\ self.cls = NONE

\* Two images, each with one annotation, and the two annotations share an id.
C11_Witness ==
    /\ op.name = "load_data_list"
    /\ op.db.img_ids = <<2, 1>>
    /\ Len(op.db.anns) = 2
    /\ op.db.anns[1].id = op.db.anns[2].id
    /\ op.db.anns[1].image_id = 1
    /\ op.db.anns[2].image_id = 2
    /\ raised = "AssertionError"

\* The box [x1, y1, w, h] cut to [0, width] x [0, height] has an area.
ClippedArea(bbox, width, height) ==
    LET cx1 == Min(Max(bbox[1], 0), width)
        cx2 == Min(Max(bbox[1] + bbox[3], 0), width)
        cy1 == Min(Max(bbox[2], 0), height)
        cy2 == Min(Max(bbox[2] + bbox[4], 0), height)
    IN  (cx2 - cx1) * (cy2 - cy1)

\* The 0-based position of category_id in cat_ids.
PositionIn(cat_ids, category_id) ==
    (CHOOSE i \in DOMAIN cat_ids : cat_ids[i] = category_id) - 1

\* C12: parse_data_info keeps an annotation exactly when it is not flagged
\* 'ignore', its box clipped to the image has a non-zero area and its
\* category_id is in cat_ids; the instances come in annotation order, with
\* bbox [x1, y1, x1+w, y1+h], ignore_flag 1 exactly when 'iscrowd' is truthy
\* and bbox_label the position of category_id in cat_ids.
C12_KeptInstances ==
    op.name = "parse_data_info" =>
        LET img == op.raw.raw_img_info
            anns == op.raw.raw_ann_info
            flagged(a) == "ignore" \in DOMAIN a /\ a.ignore # 0
            crowd(a) == "iscrowd" \in DOMAIN a /\ a.iscrowd # 0
            keep(a) ==
                /\ ~flagged(a)
                /\ ClippedArea(a.bbox, img.width, img.height) # 0
                /\ \E i \in DOMAIN self.cat_ids : self.cat_ids[i] = a.category_id
            kept == SelectSeq(anns, keep)
        IN  /\ Len(ret.instances) = Len(kept)
            /\ \A i \in DOMAIN kept :
                   LET a == kept[i]
                       inst == ret.instances[i]
                   IN  /\ inst.bbox = <<a.bbox[1], a.bbox[2], a.bbox[1] + a.bbox[3],
                                        a.bbox[2] + a.bbox[4]>>
                       /\ inst.ignore_flag = (IF crowd(a) THEN 1 ELSE 0)
                       /\ inst.bbox_label = PositionIn(self.cat_ids, a.category_id)
                       /\ 0 <= inst.bbox_label
                       /\ inst.bbox_label < Len(self.cat_ids)

\* Two annotations, the first past the image's edge and dropped, the second
\* a crowd of the second category and kept with label 0.
C12_Witness ==
    /\ op.name = "parse_data_info"
    /\ self.cat_ids = <<2, 1>>
    /\ Len(op.raw.raw_ann_info) = 2
    /\ op.raw.raw_ann_info[1].bbox = OutsideBox
    /\ op.raw.raw_ann_info[2].category_id = 2
    /\ Len(ret.instances) = 1
    /\ ret.instances[1].ignore_flag = 1
    /\ ret.instances[1].bbox_label = 0

\* The detections of which more than half the area lies in one ground-truth
\* box.
MostlyIgnored(dt_boxes, gt_boxes) ==
    {i \in DOMAIN dt_boxes :
        \E j \in DOMAIN gt_boxes :
            2 * Iof(dt_boxes[i], gt_boxes[j]).num > Iof(dt_boxes[i], gt_boxes[j]).den}

\* C13: get_ignores returns 0 when gt_boxes is empty, and otherwise the
\* number of detections whose greatest intersection-over-foreground with a
\* ground-truth box is above the threshold, 0.5 by default.
C13_CountsAboveThreshold ==
    op.name = "get_ignores" =>
        /\ raised = NONE
        /\ ret = IF op.gt_boxes = <<>> THEN 0
                 ELSE Cardinality(MostlyIgnored(op.dt_boxes, op.gt_boxes))

\* The key of the returned dict that holds the Miss Rate of a setup.
SetupKey(k) ==
    IF k = 0 THEN "Reasonable"
    ELSE IF k = 1 THEN "Reasonable_small"
    ELSE IF k = 2 THEN "Reasonable_occ=heavy"
    ELSE "all"

\* The records compute_metrics writes to the results file.
DetectionsOf(results) == FormatRecords([k \in DOMAIN results |-> results[k][2]])

FedToProj == ret.in[1].in[1]

\* The names of the submodules forward has called.
UsedModules == {calls[i].fn : i \in DOMAIN calls}

\* The submodules __init__ builds whatever the kernel_size.
AlwaysBuilt == {"q", "kv", "proj", "proj_drop", "act"}

\* Forward has fed to the projection the output of the branch that
\* kernel_size names, and called no submodule of another branch.
BranchSelected ==
    /\ raised = NONE
    /\ ret.f = "proj_drop" /\ ret.in[1].f = "proj"
    /\ IF self.kernel_size \in {3, 5}
       THEN /\ FedToProj.f = "act"
            /\ FedToProj.in[1].f = "conv_norm"
            /\ FedToProj.in[1].in[1].f = "dep_conv"
            /\ self.modules["dep_conv"].k = self.kernel_size
            /\ UsedModules \cap {"attn_drop", "sr", "norm", "pool"} = {}
       ELSE /\ FedToProj.f = "matmul"
            /\ FedToProj.in[1].f = "attn_drop"
            /\ UsedModules \cap {"fc", "dep_conv", "conv_norm"} = {}

\* C15: forward feeds the final projection the output of the one branch
\* kernel_size names: the 3x3 convolution for 3, the 5x5 convolution for 5,
\* self-attention for every other value; and the submodules __init__ builds
\* for a kernel_size are exactly those forward uses for it.
C15_OneBranchBuiltAndUsed ==
    op.name = "forward" =>
        /\ BranchSelected
        /\ (DOMAIN self.modules) \ AlwaysBuilt = UsedModules \ AlwaysBuilt
====
